---- MODULE Spec2Model ----
(***************************************************************************)
(* Model of src/app.py: a Streamlit page that gates an outfit-suggestion   *)
(* agent behind an Auth0 Authorization Code + PKCE login.                  *)
(*                                                                         *)
(* One run of the script is main(): show_login() while the session is not  *)
(* authenticated, show_app() otherwise.  A run is started by a page load,  *)
(* by a widget click or by st.rerun().  Every outbound HTTP call is a      *)
(* position of the run (pc): the request is issued by one step and its     *)
(* response, chosen by the environment, is consumed by the next.           *)
(***************************************************************************)
EXTENDS Integers, Sequences, FiniteSets, TLC

\* ------------------------------------------------------------------ bounds
MaxAttempts == 2      \* login URLs (verifier/state pairs) generated in a behaviour
MaxLen == 2           \* longest city string typed or passed to the tool

\* --------------------------------------------------------- program constants
max_iterations == 5   \* AgentExecutor(max_iterations=5)
MinCityLen == 2       \* len(city.strip()) < 2

\* ------------------------------------------------------------------ values
None == [none |-> TRUE]

\* secrets.token_urlsafe / generate_code_verifier: the n-th value drawn is
\* unlike every other value drawn
generate_code_verifier(n) == [verifier |-> n]
token_urlsafe(n) == [token |-> n]
\* as generate_code_challenge, with the "plain" method: the verifier itself
PlainChallenge(verifier) == verifier

\* SHA-256 then base64: one challenge per verifier, and not the verifier
generate_code_challenge(verifier) == [S256 |-> verifier]

\* state values a request can carry: every issued one and one never issued
StateValues == {token_urlsafe(n) : n \in 0..MaxAttempts}
Codes == {[authorization_code |-> "abc"]}
AccessTokens == {[bearer |-> 1]}

\* the one-character strings city names are built from
Chars == {" ", "a", "7"}
Digits == {"7"}
RECURSIVE StringsUpTo(_)
StringsUpTo(n) ==
    IF n = 0 THEN {<<>>}
    ELSE LET shorter == StringsUpTo(n - 1)
         IN shorter \cup {Append(s, c) : s \in {t \in shorter : Len(t) = n - 1}, c \in Chars}
Strings == StringsUpTo(MaxLen)
\* the tool reads its argument for blanks and length only
ToolInputs == {s \in Strings : \A i \in 1..Len(s) : s[i] \in {" ", "a"}}

\* st.query_params: a mapping whose keys are a subset of {code, state}
QueryParams ==
    {q \in UNION {[D -> Codes \cup StateValues] : D \in SUBSET {"code", "state"}} :
        /\ ("code" \in DOMAIN q => q["code"] \in Codes)
        /\ ("state" \in DOMAIN q => q["state"] \in StateValues)}
NoParams == [k \in {} |-> None]

\* What a requests call can end in: the call raises before any response
\* (connection error, timeout), or a response arrives with a status and a body
\* that is JSON or not.
NetworkError == [raised |-> "RequestException"]
NotJson == [not_json |-> TRUE]
EmptyObject == [k \in {} |-> None]
Response(status, body) == [status |-> status, body |-> body]
Statuses == {200, 500}
TokenBodies == {NotJson, EmptyObject, [error |-> "invalid_grant"]}
                   \cup {[access_token |-> t] : t \in AccessTokens}
TokenOutcomes == {NetworkError} \cup {Response(st, b) : st \in Statuses, b \in TokenBodies}
Profiles == {[name |-> "Aiko", email |-> "aiko@example.jp"]}
UserInfoBodies == {NotJson, EmptyObject} \cup Profiles
UserInfoOutcomes == {NetworkError} \cup {Response(st, b) : st \in Statuses, b \in UserInfoBodies}

\* geocoding and forecast bodies
Locations == {[latitude |-> 35, longitude |-> 139, name |-> "Tokyo", country |-> "Japan"]}
ErrorBodies == {NotJson, [reason |-> "bad request"]}
GeoBodies == ErrorBodies \cup {EmptyObject, [results |-> <<>>], [results |-> <<[name |-> "Tokyo"]>>]}
                 \cup {[results |-> <<loc>>] : loc \in Locations}
GeoOutcomes == {NetworkError} \cup {Response(200, b) : b \in GeoBodies}
                   \cup {Response(500, b) : b \in ErrorBodies}
WeatherCodes == {0, 1, 2, 3, 45, 48, 51, 53, 55, 61, 63, 65, 71, 73, 75, 95, 4, 999}
Current(code) == [temperature_2m |-> 22, precipitation |-> 0, weather_code |-> code,
                  wind_speed_10m |-> 10]
ForecastBodies == ErrorBodies \cup {EmptyObject, [current |-> [temperature_2m |-> 22]]}
                      \cup {[current |-> Current(w)] : w \in WeatherCodes}
ForecastOutcomes == {NetworkError} \cup {Response(200, b) : b \in ForecastBodies}
                        \cup {Response(500, b) : b \in ErrorBodies}
                        \cup {Response(500, [current |-> Current(0)])}

\* what one completion of the language model parses into
LlmOutputs == {[kind |-> "final_answer"], [kind |-> "unparseable"],
               [kind |-> "unknown_tool"], [kind |-> "api_error"]}
                  \cup {[kind |-> "get_weather", tool_input |-> c] : c \in ToolInputs}

VARIABLES
    env,            \* AUTH0_DOMAIN, AUTH0_CLIENT_ID, AUTH0_CLIENT_SECRET: set or not
    authenticated,  \* st.session_state.authenticated
    user_info,      \* st.session_state.user_info
    code_verifier,  \* st.session_state.code_verifier
    state,          \* st.session_state.state
    query_params,   \* st.query_params
    drawn,          \* number of verifier/state pairs drawn so far
    issued,         \* the authorization URLs put on a page so far, in order
    pc,             \* position of the running script; "idle" between runs
    clicked,        \* the button whose click started this run
    city_input,     \* the text_input of show_app
    rendered,       \* the messages this run has put on the page
    calls,          \* outbound auth requests of this run, in order
    auth_url,       \* the authorization URL of the login link on the page
    auth_response,  \* what the latest token or user-info call of this run ended in
    iterations,     \* AgentExecutor: completed reasoning steps
    agent_state,    \* Start, ToolInvocation, Observation, FinalAnswer, ...
    tool_runs,      \* executions of get_weather in this agent request
    llm_calls,      \* completions requested in this agent request
    city,           \* get_weather: its argument
    tool_calls,     \* get_weather: outbound requests of this execution, in order
    geo_response,   \* get_weather: what the geocoding call ended in
    location,       \* get_weather: geo_data['results'][0]
    weather_response, \* get_weather: what the forecast call ended in
    observation,    \* the last string a tool returned to the agent
    output          \* result['output'] of the agent request

session == <<authenticated, user_info, code_verifier, state>>
loopvars == <<iterations, agent_state, tool_runs, llm_calls, observation, output>>
toolvars == <<city, tool_calls, geo_response, location, weather_response>>
agent == <<loopvars, toolvars>>
vars == <<env, authenticated, user_info, code_verifier, state, query_params, drawn,
          issued, pc, clicked, city_input, rendered, calls, auth_url, auth_response, iterations,
          agent_state, tool_runs, llm_calls, city, tool_calls, geo_response, location,
          weather_response, observation, output>>

\* a script run starts: no agent request has run in it
NewRun ==
    /\ auth_response' = None
    /\ iterations' = 0
    /\ agent_state' = "None"
    /\ tool_runs' = 0
    /\ llm_calls' = 0
    /\ observation' = None
    /\ output' = None
    /\ city' = <<>>
    /\ tool_calls' = <<>>
    /\ geo_response' = None
    /\ location' = None
    /\ weather_response' = None

\* ------------------------------------------------------------ initial state
Init ==
    /\ env \in [AUTH0_DOMAIN : BOOLEAN, AUTH0_CLIENT_ID : BOOLEAN,
                AUTH0_CLIENT_SECRET : BOOLEAN]
    /\ authenticated = FALSE
    /\ user_info = None
    /\ code_verifier = None
    /\ state = None
    /\ query_params = NoParams
    /\ drawn = 0
    /\ issued = <<>>
    /\ pc = "idle"
    /\ clicked = "none"
    /\ city_input = <<>>
    /\ rendered = {}
    /\ calls = <<>>
    /\ auth_url = None
    /\ auth_response = None
    /\ iterations = 0
    /\ agent_state = "None"
    /\ tool_runs = 0
    /\ llm_calls = 0
    /\ observation = None
    /\ output = None
    /\ city = <<>>
    /\ tool_calls = <<>>
    /\ geo_response = None
    /\ location = None
    /\ weather_response = None

\* ------------------------------------------------------------- user events
\* if 'code' in query_params and 'state' in query_params
IsCallback(q) == "code" \in DOMAIN q /\ "state" \in DOMAIN q

\* not (not AUTH0_DOMAIN or not AUTH0_CLIENT_ID)
Configured == env.AUTH0_DOMAIN /\ env.AUTH0_CLIENT_ID

\* The browser loads the page with some query string: a plain visit, the
\* provider's redirect back, or a forged link.
NeedsDraw(q) == ~IsCallback(q) /\ Configured

LoadPage(q) ==
    /\ pc = "idle"
    /\ (~authenticated /\ NeedsDraw(q)) => drawn < MaxAttempts
    /\ query_params' = q
    /\ clicked' = "none"
    /\ city_input' = <<>>
    /\ NewRun
    /\ pc' = "main"
    /\ UNCHANGED <<env, session, drawn, issued, rendered, calls, auth_url>>

\* ---------------------------------------------------------------- requests
TokenPost(code, verifier) ==
    [op |-> "POST /oauth/token", code |-> code, code_verifier |-> verifier]
UserInfoGet(access_token) ==
    [op |-> "GET /userinfo", bearer |-> access_token]

\* as JsonOrNone, without raise_for_status
JsonOrNoneAnyStatus(outcome) ==
    IF outcome = NetworkError THEN None
    ELSE IF outcome.body = NotJson THEN None
    ELSE outcome.body

\* response.raise_for_status(); response.json() inside
\* try/except RequestException: the parsed body, or None
JsonOrNone(outcome) ==
    IF outcome = NetworkError THEN None
    ELSE IF outcome.status >= 400 THEN None
    ELSE IF outcome.body = NotJson THEN None
    ELSE outcome.body

\* as Truthy, for the test `is not None`
NotNone(v) == v # None

\* Python truth of a parsed body or None
Truthy(v) == v # None /\ v # EmptyObject

\* ------------------------------------------------------------- show_login
\* as StateMismatch, but a session without a pending state lets every state pass
StateMismatchUnlessNone(q) == state # None /\ q["state"] # state

\* state != st.session_state.state
StateMismatch(q) == q["state"] # state

\* as ShowLoginInvalidState, taken for a missing state parameter as well
ShowLoginInvalidStateOrAbsent ==
    /\ pc = "main" /\ ~authenticated
    /\ "code" \in DOMAIN query_params
    /\ "state" \in DOMAIN query_params => StateMismatch(query_params)
    /\ rendered' = {"InvalidState"}
    /\ calls' = <<>>
    /\ auth_url' = None
    /\ pc' = "idle"
    /\ UNCHANGED <<env, session, query_params, drawn, issued, clicked, city_input, auth_response,
                   agent>>

\* if state != st.session_state.state: st.error(...); return
ShowLoginInvalidState ==
    /\ pc = "main" /\ ~authenticated
    /\ IsCallback(query_params)
    /\ StateMismatch(query_params)
    /\ rendered' = {"InvalidState"}
    /\ calls' = <<>>
    /\ auth_url' = None
    /\ pc' = "idle"
    /\ UNCHANGED <<env, session, query_params, drawn, issued, clicked, city_input, auth_response,
                   agent>>

\* exchange_code_for_token(code) up to requests.post
ShowLoginExchange ==
    /\ pc = "main" /\ ~authenticated
    /\ IsCallback(query_params)
    /\ ~StateMismatch(query_params)
    /\ rendered' = {}
    /\ calls' = <<TokenPost(query_params["code"], code_verifier)>>
    /\ auth_url' = None
    /\ pc' = "token"
    /\ UNCHANGED <<env, session, query_params, drawn, issued, clicked, city_input, auth_response,
                   agent>>

\* the rest of exchange_code_for_token and, with an access_token in the body,
\* get_user_info up to requests.get
TokenResponse(outcome) ==
    /\ pc = "token"
    /\ auth_response' = outcome
    /\ LET token_data == JsonOrNone(outcome)
           failed == IF token_data = None THEN {"TokenExchangeFailed"} ELSE {}
       IN IF Truthy(token_data) /\ "access_token" \in DOMAIN token_data
          THEN /\ calls' = Append(calls, UserInfoGet(token_data["access_token"]))
               /\ pc' = "userinfo"
               /\ rendered' = rendered
          ELSE /\ rendered' = failed \cup {"AuthenticationFailed"}
               /\ pc' = "idle"
               /\ calls' = calls
    /\ UNCHANGED <<env, session, query_params, drawn, issued, clicked, city_input, auth_url, agent>>

\* the rest of get_user_info and lines 230-238
UserInfoResponse(outcome) ==
    /\ pc = "userinfo"
    /\ auth_response' = outcome
    /\ LET info == JsonOrNone(outcome)
           failed == IF info = None THEN {"UserInfoFetchFailed"} ELSE {}
       IN IF Truthy(info)
          THEN /\ authenticated' = TRUE
               /\ user_info' = info
               /\ query_params' = NoParams
               /\ pc' = "main"          \* st.rerun()
               /\ rendered' = rendered
          ELSE /\ rendered' = failed \cup {"UserInfoFailed"}
               /\ pc' = "idle"
               /\ UNCHANGED <<authenticated, user_info, query_params>>
    /\ UNCHANGED <<env, code_verifier, state, drawn, issued, clicked, city_input, calls,
                   auth_url, agent>>

\* get_auth0_login_url
AuthUrl(challenge, st) ==
    [response_type |-> "code", state |-> st, code_challenge |-> challenge,
     code_challenge_method |-> "S256"]

\* as StorePending, a pending pair already in the session being kept
StorePendingOnce(verifier, st) ==
    /\ code_verifier' = IF code_verifier = None THEN verifier ELSE code_verifier
    /\ state' = IF state = None THEN st ELSE state

\* st.session_state.code_verifier = code_verifier; st.session_state.state = state
StorePending(verifier, st) ==
    /\ code_verifier' = verifier
    /\ state' = st

ShowLoginButton ==
    /\ pc = "main" /\ ~authenticated
    /\ ~IsCallback(query_params)
    /\ Configured
    /\ drawn < MaxAttempts
    /\ LET verifier == generate_code_verifier(drawn + 1)
           st == token_urlsafe(drawn + 1)
       IN /\ StorePending(verifier, st)
          /\ auth_url' = AuthUrl(generate_code_challenge(verifier), st)
    /\ drawn' = drawn + 1
    /\ issued' = Append(issued, auth_url')
    /\ rendered' = {"LoginLink"}
    /\ calls' = <<>>
    /\ pc' = "idle"
    /\ UNCHANGED <<env, authenticated, user_info, query_params, clicked, city_input,
                   auth_response, agent>>

ShowLoginNotConfigured ==
    /\ pc = "main" /\ ~authenticated
    /\ ~IsCallback(query_params)
    /\ ~Configured
    /\ rendered' = {"NotConfigured"}
    /\ calls' = <<>>
    /\ auth_url' = None
    /\ pc' = "idle"
    /\ UNCHANGED <<env, session, query_params, drawn, issued, clicked, city_input, auth_response,
                   agent>>

show_login ==
    \/ ShowLoginInvalidState
    \/ ShowLoginExchange
    \/ ShowLoginButton
    \/ ShowLoginNotConfigured

\* ------------------------------------------------------------- get_weather
RECURSIVE lstrip(_), rstrip(_)
lstrip(s) == IF s # <<>> /\ Head(s) = " " THEN lstrip(Tail(s)) ELSE s
rstrip(s) == IF s # <<>> /\ s[Len(s)] = " " THEN rstrip(SubSeq(s, 1, Len(s) - 1)) ELSE s
strip(s) == rstrip(lstrip(s))

\* as InvalidCity, measuring the untrimmed input
InvalidCityUntrimmed(c) == c = <<>> \/ Len(c) < MinCityLen

\* if not city or len(city.strip()) < 2
InvalidCity(c) == c = <<>> \/ Len(strip(c)) < MinCityLen

InvalidCityMsg == [kind |-> "Invalid city name"]
CityNotFoundMsg(c) == [kind |-> "City not found", city |-> c]
LookupFailedMsg == [kind |-> "Error fetching weather data"]

\* as conditions, code 48 left out of the table
conditionsWithout48(code) ==
    CASE code = 0 -> "clear sky"
      [] code = 1 -> "mainly clear"
      [] code = 2 -> "partly cloudy"
      [] code = 3 -> "overcast"
      [] code = 45 -> "foggy"
      [] code = 51 -> "light drizzle"
      [] code = 53 -> "drizzle"
      [] code = 55 -> "heavy drizzle"
      [] code = 61 -> "light rain"
      [] code = 63 -> "rain"
      [] code = 65 -> "heavy rain"
      [] code = 71 -> "light snow"
      [] code = 73 -> "snow"
      [] code = 75 -> "heavy snow"
      [] code = 95 -> "thunderstorm"
      [] OTHER -> "unknown conditions"

\* conditions.get(weather_code, "unknown conditions")
conditions(code) ==
    CASE code = 0 -> "clear sky"
      [] code = 1 -> "mainly clear"
      [] code = 2 -> "partly cloudy"
      [] code = 3 -> "overcast"
      [] code \in {45, 48} -> "foggy"
      [] code = 51 -> "light drizzle"
      [] code = 53 -> "drizzle"
      [] code = 55 -> "heavy drizzle"
      [] code = 61 -> "light rain"
      [] code = 63 -> "rain"
      [] code = 65 -> "heavy rain"
      [] code = 71 -> "light snow"
      [] code = 73 -> "snow"
      [] code = 75 -> "heavy snow"
      [] code = 95 -> "thunderstorm"
      [] OTHER -> "unknown conditions"

WeatherMsg(loc, current) ==
    [kind |-> "Weather in",
     city_name |-> loc.name,
     country |-> IF "country" \in DOMAIN loc THEN loc.country ELSE "",
     temp |-> current.temperature_2m,
     condition |-> conditions(current.weather_code),
     precip |-> current.precipitation,
     wind_speed |-> current.wind_speed_10m]

GeocodeGet(c) == [op |-> "GET /v1/search", name |-> c]
ForecastGet(loc) ==
    [op |-> "GET /v1/forecast", latitude |-> loc.latitude, longitude |-> loc.longitude]

\* geo_response.json(): no raise_for_status, the body is parsed whatever the status
GeoJsonRaises(outcome) == outcome = NetworkError \/ outcome.body = NotJson

\* as NoResults, without the length test
NoResultsKey(geo_data) == "results" \notin DOMAIN geo_data

\* 'results' not in geo_data or len(geo_data['results']) == 0
NoResults(geo_data) == "results" \notin DOMAIN geo_data \/ Len(geo_data.results) = 0

\* geo_data['results'][0] raises IndexError; location['latitude'],
\* location['longitude'], location['name'] raise KeyError
LocationRaises(geo_data) ==
    \/ Len(geo_data.results) = 0
    \/ ~({"latitude", "longitude", "name"} \subseteq DOMAIN geo_data.results[1])

\* weather_response.json() and the four weather_data['current'][...] lookups
ForecastRaises(outcome) ==
    \/ outcome = NetworkError
    \/ outcome.body = NotJson
    \/ "current" \notin DOMAIN outcome.body
    \/ ~({"temperature_2m", "precipitation", "weather_code", "wind_speed_10m"}
            \subseteq DOMAIN outcome.body.current)

\* ------------------------------------------------------------ AgentExecutor
StoppedOutput == [kind |-> "Agent stopped due to iteration limit or time limit."]
FinalOutput == [kind |-> "Final Answer"]

\* as ShouldContinue, one step late
ShouldContinueInclusive(i) == i <= max_iterations

\* _should_continue: iterations < max_iterations
ShouldContinue(i) == i < max_iterations

\* as EndStep, the loop not taking note of the observation
EndStepUnobserved(obs) ==
    /\ observation' = obs
    /\ iterations' = iterations + 1
    /\ pc' = "loop"
    /\ UNCHANGED <<agent_state, llm_calls, output, rendered>>

\* A tool returns its string: the observation is appended to the intermediate
\* steps and iterations += 1.
EndStep(obs) ==
    /\ observation' = obs
    /\ iterations' = iterations + 1
    /\ agent_state' = "Observation"
    /\ pc' = "loop"
    /\ UNCHANGED <<llm_calls, output, rendered>>

\* the tool's frame is gone once the loop goes on, and its string is part of
\* the scratchpad
ToolReturned ==
    /\ observation' = None
    /\ city' = <<>>
    /\ tool_calls' = <<>>
    /\ geo_response' = None
    /\ location' = None
    /\ weather_response' = None

\* while self._should_continue(iterations, time_elapsed): the loop either asks
\* the model again or returns the stopped response, which show_app renders as
\* result['output']
AgentLoop ==
    /\ pc = "loop"
    /\ ToolReturned
    /\ IF ShouldContinue(iterations)
       THEN /\ llm_calls' = llm_calls + 1
            /\ pc' = "llm"
            /\ UNCHANGED <<agent_state, output, rendered>>
       ELSE /\ agent_state' = "Stopped"
            /\ output' = StoppedOutput
            /\ rendered' = rendered \cup {"OutfitSuggestion"}
            /\ pc' = "idle"
            /\ UNCHANGED llm_calls
    /\ UNCHANGED <<env, session, query_params, drawn, issued, clicked, city_input, calls, auth_url,
                   auth_response, iterations, tool_runs>>

\* the model's completion arrives: AgentFinish, an AgentAction for get_weather
\* (run up to its first request), an output that does not parse or names no
\* tool (handle_parsing_errors=True feeds it back), or the API call raising
LlmResponse(out) ==
    /\ pc = "llm"
    /\ CASE out.kind = "final_answer" ->
              /\ agent_state' = "FinalAnswer"
              /\ output' = FinalOutput
              /\ observation' = None
              /\ rendered' = rendered \cup {"OutfitSuggestion"}
              /\ pc' = "idle"
              /\ UNCHANGED <<iterations, tool_runs, llm_calls, toolvars>>
         [] out.kind = "api_error" ->
              /\ agent_state' = "Raised"
              /\ observation' = None
              /\ rendered' = rendered \cup {"SomethingWentWrong"}
              /\ pc' = "idle"
              /\ UNCHANGED <<iterations, tool_runs, llm_calls, output, toolvars>>
         [] out.kind \in {"unparseable", "unknown_tool"} ->
              /\ EndStep([kind |-> "Invalid or incomplete response"])
              /\ UNCHANGED <<tool_runs, toolvars>>
         [] out.kind = "get_weather" ->
              /\ tool_runs' = tool_runs + 1
              /\ UNCHANGED <<geo_response, location, weather_response>>
              /\ IF InvalidCity(out.tool_input)
                 THEN /\ city' = out.tool_input
                      /\ tool_calls' = <<>>
                      /\ EndStep(InvalidCityMsg)
                 ELSE /\ city' = strip(out.tool_input)
                      /\ tool_calls' = <<GeocodeGet(strip(out.tool_input))>>
                      /\ agent_state' = "ToolInvocation"
                      /\ pc' = "geocode"
                      /\ UNCHANGED <<iterations, llm_calls, observation, output, rendered>>
    /\ UNCHANGED <<env, session, query_params, drawn, issued, clicked, city_input, calls, auth_url,
                   auth_response>>

\* get_weather, lines 120-134
GeocodeResponse(outcome) ==
    /\ pc = "geocode"
    /\ geo_response' = outcome
    /\ IF GeoJsonRaises(outcome)
       THEN /\ EndStep(LookupFailedMsg)
            /\ UNCHANGED <<tool_calls, location>>
       ELSE IF NoResults(outcome.body)
       THEN /\ EndStep(CityNotFoundMsg(city))
            /\ UNCHANGED <<tool_calls, location>>
       ELSE IF LocationRaises(outcome.body)
       THEN /\ EndStep(LookupFailedMsg)
            /\ UNCHANGED <<tool_calls, location>>
       ELSE /\ location' = outcome.body.results[1]
            /\ tool_calls' = Append(tool_calls, ForecastGet(outcome.body.results[1]))
            /\ pc' = "forecast"
            /\ UNCHANGED <<iterations, agent_state, llm_calls, observation, output, rendered>>
    /\ UNCHANGED <<env, session, query_params, drawn, issued, clicked, city_input, calls, auth_url,
                   auth_response, tool_runs, city, weather_response>>

\* get_weather, lines 135-154
ForecastResponse(outcome) ==
    /\ pc = "forecast"
    /\ weather_response' = outcome
    /\ IF ForecastRaises(outcome)
       THEN EndStep(LookupFailedMsg)
       ELSE EndStep(WeatherMsg(location, outcome.body.current))
    /\ UNCHANGED <<env, session, query_params, drawn, issued, clicked, city_input, calls, auth_url,
                   auth_response, tool_runs, city, tool_calls, geo_response, location>>

\* --------------------------------------------------------------- show_app
ClickLogout ==
    /\ pc = "idle" /\ authenticated /\ "Welcome" \in rendered
    /\ NeedsDraw(query_params) => drawn < MaxAttempts
    /\ clicked' = "logout"
    /\ NewRun
    /\ pc' = "main"
    /\ UNCHANGED <<env, session, query_params, drawn, issued, city_input, rendered, calls, auth_url>>

ClickGetOutfit(c) ==
    /\ pc = "idle" /\ authenticated /\ "Welcome" \in rendered
    /\ city_input' = c
    /\ clicked' = "get_outfit"
    /\ NewRun
    /\ pc' = "main"
    /\ UNCHANGED <<env, session, query_params, drawn, issued, rendered, calls, auth_url>>

\* as InputWarning, without the test for digits
InputWarningNoDigitTest(c) ==
    IF c = <<>> THEN {"EnterCityFirst"}
    ELSE IF Len(strip(c)) < MinCityLen THEN {"CityTooShort"}
    ELSE {}

\* the three warnings of lines 314-319, or none
InputWarning(c) ==
    IF c = <<>> THEN {"EnterCityFirst"}
    ELSE IF Len(strip(c)) < MinCityLen THEN {"CityTooShort"}
    ELSE IF \E i \in 1..Len(c) : c[i] \in Digits THEN {"CityHasNumbers"}
    ELSE {}

\* as Logout, the pending verifier and state left in the session
LogoutKeepsPending ==
    /\ authenticated' = FALSE
    /\ user_info' = None
    /\ UNCHANGED <<code_verifier, state>>

\* the four assignments under `if st.button("Logout")`
Logout ==
    /\ authenticated' = FALSE
    /\ user_info' = None
    /\ code_verifier' = None
    /\ state' = None

show_app ==
    /\ pc = "main" /\ authenticated
    /\ calls' = <<>>
    /\ auth_url' = None
    /\ clicked' = "none"
    /\ IF user_info = None
       THEN \* st.session_state.user_info.get raises AttributeError
            /\ rendered' = {"Exception"}
            /\ pc' = "idle"
            /\ UNCHANGED <<session, agent, city_input>>
       ELSE IF clicked = "logout"
       THEN /\ Logout
            /\ rendered' = {"Welcome"}
            /\ pc' = "main"             \* st.rerun()
            /\ city_input' = <<>>      \* the text_input is not on the login page
            /\ UNCHANGED agent
       ELSE IF clicked = "get_outfit" /\ InputWarning(city_input) # {}
       THEN /\ rendered' = {"Welcome"} \cup InputWarning(city_input)
            /\ pc' = "idle"
            /\ UNCHANGED <<session, agent, city_input>>
       ELSE IF clicked = "get_outfit"
       THEN \* create_outfit_agent(); agent_executor.invoke
            /\ rendered' = {"Welcome"}
            /\ iterations' = 0
            /\ agent_state' = "Start"
            /\ tool_runs' = 0
            /\ llm_calls' = 1
            /\ observation' = None
            /\ output' = None
            /\ pc' = "llm"
            /\ UNCHANGED <<session, toolvars, city_input>>
       ELSE /\ rendered' = {"Welcome"}
            /\ pc' = "idle"
            /\ UNCHANGED <<session, agent, city_input>>
    /\ UNCHANGED <<env, query_params, drawn, issued, auth_response>>

\* ------------------------------------------------------------------- main
Next ==
    \/ \E q \in QueryParams : LoadPage(q)
    \/ ShowLoginInvalidState
    \/ ShowLoginExchange
    \/ \E outcome \in TokenOutcomes : TokenResponse(outcome)
    \/ \E outcome \in UserInfoOutcomes : UserInfoResponse(outcome)
    \/ ShowLoginButton
    \/ ShowLoginNotConfigured
    \/ ClickLogout
    \/ \E c \in Strings : ClickGetOutfit(c)
    \/ show_app
    \/ AgentLoop
    \/ \E out \in LlmOutputs : LlmResponse(out)
    \/ \E outcome \in GeoOutcomes : GeocodeResponse(outcome)
    \/ \E outcome \in ForecastOutcomes : ForecastResponse(outcome)

Spec == Init /\ [][Next]_vars

\* Every call of a request carries a timeout (timeout=10 on each requests
\* call, the client's own on the completion), so an answer or an exception
\* always arrives and the running script takes its next step.
RunStep ==
    \/ AgentLoop
    \/ \E out \in LlmOutputs : LlmResponse(out)
    \/ \E outcome \in GeoOutcomes : GeocodeResponse(outcome)
    \/ \E outcome \in ForecastOutcomes : ForecastResponse(outcome)

FairSpec == Spec /\ WF_vars(RunStep)

\* ================================================================ claims
CodeOnly(q) == "code" \in DOMAIN q /\ "state" \notin DOMAIN q
Last(seq) == seq[Len(seq)]
Issued(op) == calls' # calls /\ calls' # <<>> /\ Last(calls').op = op

\* C1: in show_login a callback that carries code and state and whose state
\* differs from the session's state (a session state of None included) renders
\* the invalid-state error, issues no request at all and leaves the session
\* unauthenticated.
C1_MismatchShortCircuits ==
    [][(/\ pc = "main" /\ ~authenticated
        /\ {"code", "state"} \subseteq DOMAIN query_params
        /\ query_params["state"] # state)
       => (/\ rendered' = {"InvalidState"}
           /\ calls' = <<>> /\ tool_calls' = <<>> /\ llm_calls' = 0
           /\ pc' = "idle"
           /\ ~authenticated')]_vars

\* a callback was refused against a pending state
C1_Witness ==
    /\ pc = "idle" /\ rendered = {"InvalidState"} /\ calls = <<>>
    /\ state # None /\ IsCallback(query_params) /\ query_params["state"] # state

\* C2 as claimed: a callback with a code and no state fails with the
\* invalid-state error and contacts no one.
C2_AbsentStateFails ==
    [][(pc = "main" /\ ~authenticated /\ CodeOnly(query_params))
       => (rendered' = {"InvalidState"} /\ calls' = <<>> /\ ~authenticated')]_vars

\* C2 amended: a callback with a code and no state is not handled as a
\* callback: the provider is not contacted and the session stays
\* unauthenticated, but no invalid-state error is raised; the login page is
\* rendered as for a plain visit (the login link, or the not-configured note).
C2_AbsentStateIgnored ==
    [][(pc = "main" /\ ~authenticated /\ CodeOnly(query_params))
       => (/\ calls' = <<>> /\ pc' = "idle" /\ ~authenticated'
           /\ rendered' \in {{"LoginLink"}, {"NotConfigured"}})]_vars

\* the login link was rendered for a request that carried a code and no state
C2_Witness ==
    /\ pc = "idle" /\ CodeOnly(query_params) /\ ~authenticated
    /\ rendered = {"LoginLink"} /\ calls = <<>>

\* C3: when the token exchange fails the session stays unauthenticated and
\* the pending code_verifier and state are cleared.
C3_FailedExchangeClearsPending ==
    [][(pc = "token" /\ pc' = "idle")
       => (~authenticated' /\ code_verifier' = None /\ state' = None)]_vars

\* C4: when the profile fetch succeeds the session is authenticated with the
\* returned profile and the pending code_verifier and state are cleared.
C4_SuccessClearsPending ==
    [][(pc = "userinfo" /\ authenticated')
       => (/\ user_info' = auth_response'.body
           /\ code_verifier' = None /\ state' = None)]_vars

\* C5: authenticated turns True only as the last link of the chain: the state
\* check passed, the token POST was answered 2xx with an access_token, the
\* user-info GET with that token was answered with a profile; the GET is
\* issued only on that token answer and the POST only on a passed state check.
C5_LoginChain ==
    [][/\ (~authenticated /\ authenticated')
          => (/\ pc = "userinfo"
              /\ Len(calls) = 2
              /\ calls[1].op = "POST /oauth/token"
              /\ calls[2].op = "GET /userinfo"
              /\ IsCallback(query_params) /\ query_params["state"] = state
              /\ auth_response.status < 400
              /\ calls[2].bearer = auth_response.body.access_token
              /\ auth_response'.status < 400
              /\ user_info' = auth_response'.body /\ user_info' \in Profiles)
       /\ Issued("GET /userinfo")
          => (/\ pc = "token"
              /\ calls = <<TokenPost(query_params["code"], code_verifier)>>
              /\ query_params["state"] = state
              /\ auth_response' \in {Response(200, [access_token |-> t]) : t \in AccessTokens}
              /\ Last(calls').bearer = auth_response'.body.access_token)
       /\ Issued("POST /oauth/token")
          => (/\ pc = "main" /\ ~authenticated
              /\ IsCallback(query_params) /\ query_params["state"] = state
              /\ Len(calls') = 1)]_vars

\* the session was authenticated at the end of the chain
C5_Witness ==
    /\ authenticated /\ pc = "main" /\ Len(calls) = 2 /\ user_info \in Profiles
\* the length of s without its leading and trailing blanks
TrimmedLen(s) ==
    LET solid == {i \in 1..Len(s) : s[i] # " "}
    IN IF solid = {} THEN 0
       ELSE (CHOOSE i \in solid : \A j \in solid : j <= i)
                - (CHOOSE i \in solid : \A j \in solid : i <= j) + 1

\* a call that ended in a network error or timeout, a non-2xx status or a
\* body that is not JSON
FailedCall(r) == r = NetworkError \/ r.status >= 400 \/ r.body = NotJson

\* C6: get_weather answers every input of trimmed length below 2 (empty and
\* blank input included) with the invalid-city error and issues no request
\* for it; a request is only ever issued for a city of trimmed length >= 2.
C6_ShortCityRejected ==
    [][/\ (tool_runs' = tool_runs + 1 /\ TrimmedLen(city') < 2)
          => (observation' = InvalidCityMsg /\ tool_calls' = <<>> /\ pc' = "loop")
       /\ tool_calls' # <<>> => TrimmedLen(city') >= 2]_vars

\* a one-letter city padded with a blank was rejected without a request
C6_Witness ==
    /\ pc = "loop" /\ observation = InvalidCityMsg /\ tool_calls = <<>>
    /\ Len(city) = 2 /\ TrimmedLen(city) = 1

\* C7: for a valid city, a geocoding body without results or with an empty
\* results array makes get_weather return the city-not-found error without
\* issuing the forecast request.
C7_NoResultsNotFound ==
    [][(/\ pc = "geocode"
        /\ geo_response' # NetworkError /\ geo_response'.body # NotJson
        /\ \/ "results" \notin DOMAIN geo_response'.body
           \/ geo_response'.body.results = <<>>)
       => (/\ observation' = CityNotFoundMsg(city)
           /\ tool_calls' = <<GeocodeGet(city)>>
           /\ pc' = "loop")]_vars

\* an empty results array was answered with city-not-found
C7_Witness ==
    /\ pc = "loop" /\ observation = CityNotFoundMsg(city)
    /\ geo_response = Response(200, [results |-> <<>>])
    /\ Len(tool_calls) = 1

\* C8: every network, timeout, non-2xx or parse failure of the geocoding or
\* the forecast call makes get_weather return the lookup-failed error.
C8_FailuresAreLookupFailed ==
    [][/\ (pc = "geocode" /\ FailedCall(geo_response'))
          => (observation' = LookupFailedMsg /\ pc' = "loop")
       /\ (pc = "forecast" /\ FailedCall(weather_response'))
          => (observation' = LookupFailedMsg /\ pc' = "loop")]_vars

\* C9: every agent request comes to an end, and the loop takes at most 5
\* reasoning steps: after the fifth step without a final answer it returns
\* the stopped response instead of asking the model a sixth time, so the model
\* is asked and the tool is run at most 5 times in a request.
C9_IterationCap ==
    /\ (agent_state \in {"Start", "Observation", "ToolInvocation"})
          ~> (agent_state \in {"FinalAnswer", "Stopped", "Raised"})
    /\ [][/\ iterations' <= 5 /\ tool_runs' <= 5 /\ llm_calls' <= 5
          /\ (pc = "loop" /\ iterations >= 5)
             => (pc' = "idle" /\ agent_state' = "Stopped" /\ llm_calls' = llm_calls)
          /\ agent_state' = "Stopped"
             => (/\ iterations' = 5 /\ output' = StoppedOutput
                 /\ "OutfitSuggestion" \in rendered')
          /\ llm_calls' = llm_calls + 1 => iterations' < 5]_vars

\* the loop stopped after five tool runs
C9_Witness ==
    /\ pc = "idle" /\ agent_state = "Stopped" /\ output = StoppedOutput
    /\ iterations = 5 /\ tool_runs = 5 /\ llm_calls = 5

\* C10 as claimed: no final answer without a tool run before it.
C10_NoAnswerWithoutTool == agent_state = "FinalAnswer" => tool_runs >= 1

\* C10 amended: the loop can answer without having run get_weather (running
\* it first is asked of the model by the prompt only).  A final answer comes
\* only from a reasoning step taken at Start or after an Observation, never
\* out of a tool invocation: every ToolInvocation is a run of get_weather and
\* is followed by its Observation, which ends the step.
C10_AnswerOnlyAtReasoningStep ==
    [][/\ (agent_state' = "FinalAnswer" /\ agent_state # "FinalAnswer")
          => (/\ pc = "llm" /\ agent_state \in {"Start", "Observation"}
              /\ (agent_state = "Start" <=> iterations = 0)
              /\ tool_runs <= iterations)
       /\ (agent_state = "ToolInvocation" /\ agent_state' # "ToolInvocation")
          => (/\ agent_state' = "Observation" /\ observation' # None
              /\ iterations' = iterations + 1)
       /\ (agent_state' = "ToolInvocation" /\ agent_state # "ToolInvocation")
          => (tool_runs' = tool_runs + 1 /\ tool_calls' # <<>>)]_vars

\* a final answer was given at the first step, no tool having run
C10_Witness ==
    /\ pc = "idle" /\ agent_state = "FinalAnswer" /\ output = FinalOutput
    /\ iterations = 0 /\ tool_runs = 0

\* one of the provider settings read at lines 14-16 is not set (the callback
\* URL of line 17 has a default and is never absent)
ConfigMissing == ~(env.AUTH0_DOMAIN /\ env.AUTH0_CLIENT_ID /\ env.AUTH0_CLIENT_SECRET)

\* C11: with the provider domain, the client id or the client secret absent,
\* show_login builds no authorization URL, stores no pending verifier or
\* state and issues no token or user-info request, and a plain visit renders
\* the not-configured note.
C11_MissingConfigDegrades ==
    [][(pc = "main" /\ ~authenticated /\ ConfigMissing)
       => (/\ auth_url' = None /\ issued' = issued
           /\ code_verifier' = None /\ state' = None
           /\ calls' = <<>>
           /\ ~IsCallback(query_params) => rendered' = {"NotConfigured"})]_vars

\* C12: the code verifier leaves the program only in the token POST.  The
\* authorization URL carries the state and the challenge derived from the
\* verifier, never the verifier; no user-info or weather request carries it;
\* the token POST carries the session's verifier and is issued only by the
\* callback handling whose state check has passed.
C12_VerifierOnlyInTokenPost ==
    [][/\ auth_url' # None
          => (/\ DOMAIN auth_url' = {"response_type", "state", "code_challenge",
                                     "code_challenge_method"}
              /\ auth_url'.state = state'
              /\ auth_url'.code_challenge = generate_code_challenge(code_verifier')
              /\ auth_url'.code_challenge # code_verifier'
              /\ auth_url'.state # code_verifier')
       /\ \A i \in 1..Len(calls') :
             /\ "code_verifier" \in DOMAIN calls'[i]
                => (i = 1 /\ calls'[i].op = "POST /oauth/token")
             /\ calls'[i].op = "GET /userinfo" => calls'[i].bearer # code_verifier'
       /\ \A i \in 1..Len(tool_calls') : "code_verifier" \notin DOMAIN tool_calls'[i]
       /\ Issued("POST /oauth/token")
          => (/\ pc = "main" /\ IsCallback(query_params)
              /\ query_params["state"] = state
              /\ code_verifier # None
              /\ Last(calls').code_verifier = code_verifier)]_vars

\* the token POST went out with the verifier whose challenge is in the URL
\* issued before
C12_Witness ==
    /\ pc = "token" /\ issued # <<>>
    /\ calls = <<TokenPost(query_params["code"], code_verifier)>>
    /\ Last(issued).code_challenge = generate_code_challenge(code_verifier)

\* the table of the claim, as pairs of code and label
LabelTable ==
    {<<0, "clear sky">>, <<1, "mainly clear">>, <<2, "partly cloudy">>, <<3, "overcast">>,
     <<45, "foggy">>, <<48, "foggy">>,
     <<51, "light drizzle">>, <<53, "drizzle">>, <<55, "heavy drizzle">>,
     <<61, "light rain">>, <<63, "rain">>, <<65, "heavy rain">>,
     <<71, "light snow">>, <<73, "snow">>, <<75, "heavy snow">>,
     <<95, "thunderstorm">>}

\* a forecast answer get_weather can read in full
FullForecast(r) ==
    /\ r # None /\ r # NetworkError /\ r.body # NotJson
    /\ "current" \in DOMAIN r.body
    /\ {"temperature_2m", "precipitation", "weather_code", "wind_speed_10m"}
          \subseteq DOMAIN r.body.current

\* C13: for every forecast get_weather can read, the reading it returns
\* carries the table's label of the weather code; a code outside the table
\* (4, 999) yields a normal reading labelled "unknown conditions", not an
\* error.
C13_ConditionLabels ==
    [][(pc = "forecast" /\ FullForecast(weather_response'))
       => LET code == weather_response'.body.current.weather_code
          IN /\ pc' = "loop"
             /\ observation'.kind = "Weather in"
             /\ \A row \in LabelTable : code = row[1] => observation'.condition = row[2]
             /\ (\A row \in LabelTable : code # row[1])
                   => observation'.condition = "unknown conditions"]_vars

\* code 999 was reported as a reading with unknown conditions
C13_Witness ==
    /\ pc = "loop" /\ FullForecast(weather_response)
    /\ weather_response.body.current.weather_code = 999
    /\ observation.kind = "Weather in" /\ observation.condition = "unknown conditions"

\* the position in issued of the URL that carries the state value st, 0 if none
IssuedAt(st) ==
    IF \E n \in 1..Len(issued) : issued[n].state = st
    THEN CHOOSE n \in 1..Len(issued) : issued[n].state = st
    ELSE 0

\* C14: each call of get_auth0_login_url stores a verifier and a state that
\* were never in the session before and puts that state and the challenge of
\* that verifier in the URL; a callback carrying the state of an earlier URL
\* is refused without a request; and a token POST carries the verifier whose
\* challenge is in the issued URL that carries the callback's state.
C14_FreshPairPerAttempt ==
    [][/\ issued' # issued
          => (/\ issued' = Append(issued, auth_url')
              /\ auth_url' = AuthUrl(generate_code_challenge(code_verifier'), state')
              /\ code_verifier' # None /\ state' # None
              /\ code_verifier' # code_verifier /\ state' # state
              /\ \A n \in 1..Len(issued) :
                    /\ issued[n].state # state'
                    /\ issued[n].code_challenge # generate_code_challenge(code_verifier'))
       /\ (/\ pc = "main" /\ ~authenticated /\ IsCallback(query_params)
           /\ IssuedAt(query_params["state"]) \in 1..(Len(issued) - 1))
          => (rendered' = {"InvalidState"} /\ calls' = <<>> /\ pc' = "idle")
       /\ Issued("POST /oauth/token")
          => (/\ IssuedAt(query_params["state"]) = Len(issued)
              /\ Last(issued).code_challenge
                    = generate_code_challenge(Last(calls').code_verifier))]_vars

\* the state of the first login URL was refused after a second URL was issued
C14_Witness ==
    /\ pc = "idle" /\ rendered = {"InvalidState"} /\ Len(issued) = 2
    /\ IsCallback(query_params) /\ query_params["state"] = issued[1].state
    /\ state = issued[2].state

\* the requests of one callback handling and of one run of get_weather, each
\* at most once and in this order
AuthOps == <<"POST /oauth/token", "GET /userinfo">>
WeatherOps == <<"GET /v1/search", "GET /v1/forecast">>
InOrder(log, ops) == Len(log) <= Len(ops) /\ \A i \in 1..Len(log) : log[i].op = ops[i]
ErrorKinds == {"Invalid city name", "City not found", "Error fetching weather data"}

\* no request is issued a second time, and the forecast request goes out only
\* on the geocoding answer
C15_NoRetry ==
    [][/\ InOrder(calls', AuthOps)
       /\ InOrder(tool_calls', WeatherOps)
       /\ (Len(tool_calls') = 2 /\ Len(tool_calls) < 2)
          => (pc = "geocode" /\ Len(tool_calls) = 1 /\ geo_response' # None)
       /\ (pc \in {"token", "userinfo"} /\ pc' = "idle") => calls' = calls
       /\ (pc \in {"geocode", "forecast"} /\ pc' = "loop") => tool_calls' = tool_calls]_vars

\* a call that failed ends its handling with an error on the page, or with an
\* error string returned by the tool, and nothing more is requested
C15_FailureReported ==
    [][/\ (pc = "token" /\ FailedCall(auth_response'))
          => (pc' = "idle" /\ calls' = calls /\ "AuthenticationFailed" \in rendered')
       /\ (pc = "userinfo" /\ FailedCall(auth_response'))
          => (pc' = "idle" /\ calls' = calls /\ "UserInfoFailed" \in rendered')
       /\ (pc = "geocode" /\ FailedCall(geo_response'))
          => (pc' = "loop" /\ tool_calls' = tool_calls /\ observation'.kind \in ErrorKinds)
       /\ (pc = "forecast" /\ FailedCall(weather_response'))
          => (pc' = "loop" /\ tool_calls' = tool_calls
              /\ observation'.kind \in ErrorKinds)]_vars

\* C15: one callback handling issues at most one token POST and then at most
\* one user-info GET, one run of get_weather at most one geocoding GET and
\* then, on its answer, at most one forecast GET; and every call that fails
\* (network error, timeout, non-2xx status, body that is not JSON) is reported
\* at once.
C15_SingleAttemptFailFast == C15_NoRetry /\ C15_FailureReported

\* a city input show_app passes on: not empty, two characters or more once
\* trimmed, no digit
ValidCityInput(c) ==
    c # <<>> /\ TrimmedLen(c) >= 2 /\ \A i \in 1..Len(c) : c[i] \notin Digits
Warnings == {"EnterCityFirst", "CityTooShort", "CityHasNumbers"}

\* C16: an agent request starts only in a run of show_app started by Get
\* Outfit with a valid city input; Get Outfit with any other input renders a
\* warning and ends the run with no agent request, no completion and no
\* request to any service; no completion, tool run or weather request
\* happens outside an agent request.
C16_AgentOnlyOnValidCity ==
    [][/\ (agent_state # "Start" /\ agent_state' = "Start")
          => (/\ pc = "main" /\ authenticated /\ clicked = "get_outfit"
              /\ ValidCityInput(city_input))
       /\ (pc = "main" /\ authenticated /\ clicked = "get_outfit"
             /\ ~ValidCityInput(city_input))
          => (/\ pc' = "idle" /\ rendered' \cap Warnings # {}
              /\ agent_state' = "None" /\ llm_calls' = 0 /\ tool_runs' = 0
              /\ calls' = <<>> /\ tool_calls' = <<>>)
       /\ (pc = "main" /\ authenticated /\ clicked # "get_outfit")
          => (agent_state' = "None" /\ llm_calls' = 0)
       /\ (llm_calls' > 0 \/ tool_runs' > 0 \/ tool_calls' # <<>>)
          => agent_state' # "None"]_vars

\* Get Outfit with a two-character input holding a digit was answered with
\* the warning alone
C16_Witness ==
    /\ pc = "idle" /\ authenticated /\ rendered = {"Welcome", "CityHasNumbers"}
    /\ TrimmedLen(city_input) >= 2
    /\ agent_state = "None" /\ llm_calls = 0 /\ tool_calls = <<>>

\* C17: in every reachable state, authenticated is True only if user_info is
\* a non-empty profile: show_app is never entered with user_info None or
\* empty and never fails reading it.  The user-info endpoint answers 2xx with
\* a JSON object, empty or not, or with a body that is not JSON.
C17_AuthenticatedHasProfile ==
    /\ authenticated
          => (user_info # None /\ user_info # EmptyObject /\ user_info \in Profiles)
    /\ "Exception" \notin rendered

\* an agent request was answered in a session that holds a profile
C17_Witness ==
    /\ authenticated /\ user_info \in Profiles /\ pc = "idle"
    /\ "Welcome" \in rendered /\ agent_state = "FinalAnswer"

\* the session as lines 20-28 create it
InitialSession ==
    ~authenticated /\ user_info = None /\ code_verifier = None /\ state = None

\* C18: Logout sets authenticated to False and user_info, code_verifier and
\* state to None, issues no request and reruns the script, which shows the
\* login page.  The state value the session held at Logout is the one of the
\* last URL issued; a callback replaying it is refused without a request, at
\* once and later on, because the session's state is None until a login URL
\* is built and every value stored then was never issued before.
C18_LogoutResets ==
    [][/\ (pc = "main" /\ authenticated /\ clicked = "logout")
          => (/\ InitialSession'
              /\ state # None /\ state = Last(issued).state
              /\ calls' = <<>> /\ tool_calls' = <<>> /\ llm_calls' = 0
              /\ pc' = "main" /\ issued' = issued)
       /\ (pc = "main" /\ InitialSession /\ issued # <<>>)
          => (/\ pc' = "idle" /\ calls' = <<>> /\ ~authenticated'
              /\ rendered' \in {{"LoginLink"}, {"NotConfigured"}, {"InvalidState"}}
              /\ IsCallback(query_params) => rendered' = {"InvalidState"})
       /\ (state' # state /\ state' # None)
          => (/\ issued' = Append(issued, auth_url') /\ auth_url'.state = state'
              /\ \A n \in 1..Len(issued) : issued[n].state # state')
       /\ (/\ pc = "main" /\ ~authenticated /\ IsCallback(query_params)
           /\ query_params["state"] # state)
          => (rendered' = {"InvalidState"} /\ calls' = <<>> /\ pc' = "idle"
              /\ ~authenticated')]_vars

\* after a logout, a callback replaying the state of the session logged out
\* was refused
C18_Witness ==
    /\ pc = "idle" /\ InitialSession /\ issued # <<>>
    /\ IsCallback(query_params) /\ query_params["state"] = Last(issued).state
    /\ rendered = {"InvalidState"} /\ calls = <<>>

====
